---- MODULE Spec2Model ----
(***************************************************************************)
(* Token Sale lock script (contracts/token-sale/src/main.rs).              *)
(*                                                                         *)
(* One run of the script over one transaction snapshot.  The snapshot      *)
(* (script, inputs, outputs) is fixed by Init; the actions are the steps   *)
(* of main() and of the functions it calls, one action per straight-line   *)
(* block or loop iteration.                                                *)
(*                                                                         *)
(* Unsigned integers are kept at their real width: a u64 is a sequence of  *)
(* 8 base-256 digits and a u128 a sequence of 16, least significant digit  *)
(* first, which is also the layout of the bytes they are read from.        *)
(***************************************************************************)
EXTENDS Integers, Sequences, FiniteSets, TLC

(***************************************************************************)
(* Constants of main.rs                                                    *)
(***************************************************************************)
COST_AMOUNT_LEN == 8
LOCK_HASH_LEN == 32
SUDT_AMOUNT_DATA_LEN == 16
ARGS_LEN == LOCK_HASH_LEN + COST_AMOUNT_LEN

\* Number of bytes of a u64 (cell capacity) and of the sale id (u32).
U64_LEN == 8
SALE_ID_LEN == 4

(***************************************************************************)
(* Bounds of the model                                                     *)
(***************************************************************************)
MaxInputs == 2
MaxOutputs == 2

(***************************************************************************)
(* Fixed-width unsigned arithmetic on little-endian digit sequences        *)
(***************************************************************************)
Zeros(n) == [k \in 1..n |-> 0]

\* The digits of a small natural n, little-endian, on w bytes (to_le_bytes).
RECURSIVE ToLeBytes(_, _)
ToLeBytes(n, w) ==
    IF w = 0 THEN << >> ELSE <<n % 256>> \o ToLeBytes(n \div 256, w - 1)

\* Zero-extension (`as u128`) of a to w digits.
Widen(a, w) == a \o Zeros(w - Len(a))

IsZero(a) == \A k \in 1..Len(a) : a[k] = 0

\* In the recursive operators below an intermediate value is bound by a
\* quantifier over the singleton {v}, which evaluates v once, where a LET
\* would evaluate it anew at every use.

\* a < b for two numbers of the same width.
RECURSIVE Less(_, _)
Less(a, b) ==
    \E av \in {a}, bv \in {b} :
        IF Len(av) = 0 THEN FALSE
        ELSE LET n == Len(av) IN
             IF av[n] # bv[n] THEN av[n] < bv[n]
             ELSE Less(SubSeq(av, 1, n - 1), SubSeq(bv, 1, n - 1))

LessEq(a, b) == ~Less(b, a)

\* a + b + c: Len(a) digits followed by the carry out.
RECURSIVE AddCarry(_, _, _)
AddCarry(a, b, c) ==
    IF Len(a) = 0 THEN <<c>>
    ELSE CHOOSE sum \in
             {<<s % 256>> \o AddCarry(ta, tb, s \div 256) :
                 s \in {a[1] + b[1] + c}, ta \in {Tail(a)}, tb \in {Tail(b)}} : TRUE

\* a - b - c for a >= b + c, same width.
RECURSIVE SubBorrow(_, _, _)
SubBorrow(a, b, c) ==
    IF Len(a) = 0 THEN << >>
    ELSE CHOOSE diff \in
             {IF d < 0 THEN <<d + 256>> \o SubBorrow(ta, tb, 1)
              ELSE <<d>> \o SubBorrow(ta, tb, 0) :
                 d \in {a[1] - b[1] - c}, ta \in {Tail(a)}, tb \in {Tail(b)}} : TRUE

Sub(a, b) == SubBorrow(a, b, 0)

\* a * d + c for one digit d: Len(a) + 1 digits.
RECURSIVE MulDigit(_, _, _)
MulDigit(a, d, c) ==
    IF Len(a) = 0 THEN <<c>>
    ELSE CHOOSE prod \in
             {<<p % 256>> \o MulDigit(ta, dv, p \div 256) :
                 p \in {a[1] * d + c}, ta \in {Tail(a)}, dv \in {d}} : TRUE

\* The exact product a * b: Len(a) + Len(b) digits.
RECURSIVE MulFull(_, _)
MulFull(a, b) ==
    IF Len(b) = 0 THEN Zeros(Len(a))
    ELSE LET w == Len(a) + Len(b)
         IN  CHOOSE sum \in
                 {SubSeq(AddCarry(low, high, 0), 1, w) :
                     low  \in {Widen(MulDigit(a, b[1], 0), w)},
                     high \in {<<0>> \o MulFull(a, Tail(b))}} : TRUE

\* Does the exact value x fit in w digits?
Fits(x, w) == \A k \in (w + 1)..Len(x) : x[k] = 0
Wrap(x, w) == SubSeq(x, 1, w)

(***************************************************************************)
(* Scripts, cells and the host's view of the transaction                   *)
(***************************************************************************)
Script(code, args) == [code_hash |-> code, args |-> args]

\* The absent type script of a cell (ScriptOpt None).
NoScript == [code_hash |-> "", args |-> << >>]

Cell(capacity, lock, type, data) ==
    [capacity |-> capacity, lock |-> lock, type |-> type, data |-> data]

\* Serialised script: empty for an absent script, and one-to-one otherwise.
AsBytes(s) == IF s = NoScript THEN << >> ELSE <<s.code_hash>> \o s.args

\* lock-1 of the tests (the owner's lock) and a second lock of the same code.
Lock1 == Script("always_success", <<0, 1>>)
Lock2 == Script("always_success", <<1, 1>>)
SudtType == Script("sudt", <<0>>)
SudtType2 == Script("sudt", <<1>>)

\* The 32-byte digest of a lock script.  Distinct for Lock1 and Lock2; no
\* other script of the model has the digest of Lock1 or Lock2.
ScriptHash(s) ==
    [k \in 1..LOCK_HASH_LEN |->
        IF s.code_hash = "always_success" THEN 1 + s.args[1] ELSE 255]

\* Args as the tests build them: owner lock hash, cost (u64 LE), id (u32 LE);
\* cut or zero-padded to len bytes.
EncodeArgs(owner, cost, id, len) ==
    LET full == owner \o cost \o ToLeBytes(id, SALE_ID_LEN)
    IN  IF len <= Len(full) THEN SubSeq(full, 1, len)
        ELSE full \o Zeros(len - Len(full))

SaleScript(cost, id, len) ==
    Script("token_sale", EncodeArgs(ScriptHash(Lock1), cost, id, len))

U64(n) == ToLeBytes(n, U64_LEN)
U128(n) == ToLeBytes(n, SUDT_AMOUNT_DATA_LEN)
\* (2^128 + 2) / 3: three times this amount is 2 modulo 2^128.
BigTokens == <<86>> \o [k \in 1..(SUDT_AMOUNT_DATA_LEN - 1) |-> 85]

VARIABLES
    script,                  \* the executing script (load_script)
    asType,                  \* TRUE when the script runs as a type script
    inputs, outputs,         \* the cells of the transaction
    fault,                   \* the host call that fails, if any, and its error
    chain,                   \* the sale cell a chain of transactions began
                             \* with, and the transactions accepted since
    pc,                      \* position in main()
    i,                       \* index of the scan in progress
    lock_script, type_script,
    token_sale_lock_cells,
    token_cost,
    total_capacity, total_tokens,
    input_capacity_amount, input_token_amount,
    output_capacity_amount, output_token_amount,
    result                   \* outcome of main(), "" while running

tx == <<script, asType, inputs, outputs, fault, chain>>
key == <<lock_script, type_script>>
totals == <<total_capacity, total_tokens>>
input_amounts == <<input_capacity_amount, input_token_amount>>
output_amounts == <<output_capacity_amount, output_token_amount>>
vars == <<tx, pc, i, key, token_sale_lock_cells, token_cost, totals,
          input_amounts, output_amounts, result>>

\* Source::GroupInput: the inputs whose lock (or type, for a type script) is
\* the executing script, in input order.
GroupInput ==
    SelectSeq(inputs, LAMBDA c : IF asType THEN c.type = script ELSE c.lock = script)

CellsOf(source) ==
    CASE source = "Input" -> inputs
      [] source = "Output" -> outputs
      [] source = "GroupInput" -> GroupInput

\* The host call that fails with an error other than IndexOutOfBound: the
\* accessor, its source and index, and the SysError it returns.  No call
\* fails in NoFault.
NoFault == [call |-> "none", source |-> "", index |-> 0, err |-> "Ok"]

HostFaults == {"ItemMissing", "LengthNotEnough", "Encoding", "Unknown"}

\* The SysError of an accessor call, "Ok" for Ok(_): the fault when the call
\* is the failing one, and IndexOutOfBound past the end of a source.
SysErrorOf(call, index, source) ==
    IF fault.call = call /\ fault.source = source /\ fault.index = index
    THEN fault.err
    ELSE IF call # "load_script" /\ index >= Len(CellsOf(source))
    THEN "IndexOutOfBound"
    ELSE "Ok"

\* impl From<SysError> for Error: the Error of a SysError, a panic for Unknown.
FromSysError(err) == IF err = "Unknown" THEN "panic" ELSE err

\* load_cell(index, source).is_ok()
LoadCellIsOk(index, source) == SysErrorOf("load_cell", index, source) = "Ok"
LoadCell(index, source) == CellsOf(source)[index + 1]
LoadCellData(index, source) == CellsOf(source)[index + 1].data
LoadCellLockHash(index, source) == ScriptHash(CellsOf(source)[index + 1].lock)

(***************************************************************************)
(* Transaction snapshots                                                   *)
(***************************************************************************)
SeqsUpTo(S, lo, hi) == UNION {[1..n -> S] : n \in lo..hi}

ArgLens == {0, 32, 39, 40, 43, 44, 45}
CostVals == {U64(0), U64(1), U64(3)}
CapVals == {U64(n) : n \in 0..3}
DataVals == {U128(0), U128(1), BigTokens, << >>, U128(1) \o <<0>>}

FULL_ARGS_LEN == 44

SaleIn(s) == Cell(U64(0), s, SudtType, U128(1))
SaleOut(s) == Cell(U64(1), s, SudtType, U128(0))
OwnerCell == Cell(U64(1), Lock1, NoScript, << >>)
PlainCell == Cell(U64(1), Lock2, NoScript, << >>)
OtherSale(s) == Script(s.code_hash, [s.args EXCEPT ![Len(s.args)] = 1])

InCells(s) ==
    { SaleIn(s),
      Cell(U64(0), s, NoScript, << >>),
      Cell(U64(0), OtherSale(s), SudtType, U128(1)),
      OwnerCell,
      PlainCell }

OutCells(s) ==
    { SaleOut(s),
      Cell(U64(1), s, SudtType, << >>),
      Cell(U64(1), s, SudtType2, U128(0)),
      Cell(U64(1), OtherSale(s), SudtType, U128(0)),
      Cell(U64(1), Lock2, SudtType, U128(1)),
      PlainCell }

\* Structure: any arrangement of sale cells and other cells.
InitStructure ==
    /\ \E cost \in {U64(0), U64(1)} : script = SaleScript(cost, 0, FULL_ARGS_LEN)
    /\ asType = FALSE
    /\ inputs \in SeqsUpTo(InCells(script), 1, MaxInputs)
    /\ \E k \in 1..Len(inputs) : inputs[k].lock = script
    /\ outputs \in SeqsUpTo(OutCells(script), 0, MaxOutputs)

\* Amounts: one sale cell in, one sale cell out, any amounts and payloads.
InitAmounts ==
    /\ \E cost \in CostVals : script = SaleScript(cost, 0, FULL_ARGS_LEN)
    /\ asType = FALSE
    /\ \E c \in CapVals, d \in DataVals :
          inputs = <<Cell(c, script, SudtType, d)>>
    /\ \E c \in CapVals, d \in DataVals :
          outputs = <<Cell(c, script, SudtType, d)>>

\* Args: any args length, with and without the owner's cell among the inputs.
InitArgs ==
    /\ \E cost \in {U64(0), U64(1)}, len \in ArgLens :
          script = SaleScript(cost, 0, len)
    /\ asType = FALSE
    /\ inputs \in {<<SaleIn(script)>>, <<SaleIn(script), OwnerCell>>,
                   <<OwnerCell, SaleIn(script)>>}
    /\ outputs \in {<<SaleOut(script)>>, << >>}

\* The script attached as a type script: its group holds the cells of that
\* type, and may hold no input at all.
InitAsType ==
    /\ \E cost \in {U64(0), U64(1)} : script = SaleScript(cost, 0, FULL_ARGS_LEN)
    /\ asType = TRUE
    /\ inputs \in SeqsUpTo({PlainCell, OwnerCell,
                            Cell(U64(0), Lock2, script, U128(1))}, 1, MaxInputs)
    /\ outputs \in SeqsUpTo({PlainCell,
                             Cell(U64(1), Lock2, script, U128(0))}, 0, MaxOutputs)
    /\ \/ \E k \in 1..Len(inputs) : inputs[k].type = script
       \/ \E k \in 1..Len(outputs) : outputs[k].type = script

\* Two sales whose args differ only in the sale id, each with its own input
\* and output, validated by the script of either of them.
InitTwoSales ==
    LET s0 == SaleScript(U64(1), 0, FULL_ARGS_LEN)
        s1 == OtherSale(s0)
    IN  /\ script \in {s0, s1}
        /\ asType = FALSE
        /\ inputs \in {<<SaleIn(s0), SaleIn(s1)>>, <<SaleIn(s1), SaleIn(s0)>>}
        /\ \E c0, c1 \in {U64(0), U64(1), U64(2)}, d0, d1 \in {U128(0), U128(1)} :
              outputs \in {<<Cell(c0, s0, SudtType, d0), Cell(c1, s1, SudtType, d1)>>,
                           <<Cell(c1, s1, SudtType, d1), Cell(c0, s0, SudtType, d0)>>}

\* Args built from any owner hash, cost and sale id, as the tests build them
\* (the zero hash is the owner of their non-owner transactions).
RoundTripOwners == {ScriptHash(Lock1), ScriptHash(Lock2), Zeros(LOCK_HASH_LEN)}
RoundTripCosts == {1, 3, 255, 256, 65537, 16777221}
RoundTripIds == {0, 1, 258, 16777216}

InitRoundTrip ==
    /\ \E owner \in RoundTripOwners, cost \in RoundTripCosts, id \in RoundTripIds :
          script = Script("token_sale", EncodeArgs(owner, U64(cost), id, FULL_ARGS_LEN))
    /\ asType = FALSE
    /\ inputs \in {<<SaleIn(script)>>, <<SaleIn(script), OwnerCell>>,
                   <<PlainCell, SaleIn(script)>>}
    /\ outputs = <<SaleOut(script)>>

\* The largest cells: every capacity is u64::MAX and every token amount is
\* u128::MAX, on the sale cells and on the cells around them.
MaxCapacity == [k \in 1..U64_LEN |-> 255]
MaxTokens == [k \in 1..SUDT_AMOUNT_DATA_LEN |-> 255]

MaxCells(s) ==
    { Cell(MaxCapacity, s, SudtType, MaxTokens),
      Cell(MaxCapacity, OtherSale(s), SudtType, MaxTokens),
      Cell(MaxCapacity, s, SudtType2, MaxTokens),
      Cell(MaxCapacity, Lock2, SudtType, MaxTokens) }

InitMaxValues ==
    /\ script = SaleScript(U64(1), 0, FULL_ARGS_LEN)
    /\ asType = FALSE
    /\ inputs \in SeqsUpTo(MaxCells(script) \ {Cell(MaxCapacity, script, SudtType2, MaxTokens)},
                           1, MaxInputs)
    /\ \E k \in 1..Len(inputs) : inputs[k].lock = script
    /\ outputs \in SeqsUpTo(MaxCells(script), 1, MaxOutputs)

\* A chain begins with the transaction at hand: its sale cell, if the input
\* group has one, and no transaction accepted yet.
ChainStart ==
    [origin |-> IF Len(GroupInput) = 0 THEN << >> ELSE <<GroupInput[1]>>,
     length |-> 0]

\* The state of the script when it starts.
Start ==
    /\ pc = "main"
    /\ i = 0
    /\ lock_script = NoScript
    /\ type_script = NoScript
    /\ token_sale_lock_cells = 0
    /\ token_cost = U64(0)
    /\ total_capacity = U64(0)
    /\ total_tokens = U128(0)
    /\ input_capacity_amount = U64(0)
    /\ input_token_amount = U128(0)
    /\ output_capacity_amount = U64(0)
    /\ output_token_amount = U128(0)
    /\ result = ""

\* The calls the script can make on a transaction of the model, and the
\* faults of the host: one call fails, with any error but IndexOutOfBound.
HostCalls ==
    {[call |-> "load_script", source |-> "", index |-> 0]}
    \cup {[call |-> "load_cell_lock_hash", source |-> "Input", index |-> k] :
              k \in 0..(MaxInputs - 1)}
    \cup {[call |-> c, source |-> "GroupInput", index |-> k] :
              c \in {"load_cell", "load_cell_data"}, k \in 0..(MaxInputs - 1)}
    \cup {[call |-> c, source |-> "Output", index |-> k] :
              c \in {"load_cell", "load_cell_data"}, k \in 0..(MaxOutputs - 1)}

FaultPlans ==
    {[call |-> h.call, source |-> h.source, index |-> h.index, err |-> e] :
        h \in HostCalls, e \in HostFaults}

\* Transactions of the structure tests, on a host that may fail one call.
InitFaults ==
    /\ \E cost \in {U64(0), U64(1)} : script = SaleScript(cost, 0, FULL_ARGS_LEN)
    /\ asType = FALSE
    /\ inputs \in {<<SaleIn(script)>>, <<SaleIn(script), SaleIn(script)>>,
                   <<SaleIn(script), OwnerCell>>, <<PlainCell, SaleIn(script)>>}
    /\ outputs \in {<<SaleOut(script)>>, <<PlainCell, SaleOut(script)>>, << >>}
    /\ fault \in FaultPlans \cup {NoFault}
    /\ chain = ChainStart
    /\ Start

Init ==
    /\ \/ InitStructure
       \/ InitAmounts
       \/ InitArgs
       \/ InitAsType
       \/ InitTwoSales
       \/ InitRoundTrip
       \/ InitMaxValues
    /\ fault = NoFault
    /\ chain = ChainStart
    /\ Start

(***************************************************************************)
(* The script                                                              *)
(***************************************************************************)
\* `return` from main(): entry() turns the value into the exit code.
Return(r) ==
    /\ pc' = "done"
    /\ result' = r

\* entry(): the exit code of an outcome of main(), by the discriminants of
\* enum Error.  A panic does not return from main().
ExitCode(r) ==
    CASE r = "Ok" -> 0
      [] r = "IndexOutOfBound" -> 1
      [] r = "ItemMissing" -> 2
      [] r = "LengthNotEnough" -> 3
      [] r = "Encoding" -> 4
      [] r = "ArgsLen" -> 100
      [] r = "AmountCkbytes" -> 101
      [] r = "AmountSudt" -> 102
      [] r = "ExchangeRate" -> 103
      [] r = "InvalidCost" -> 104
      [] r = "InvalidStructure" -> 105
      [] r = "panic"            -> -1

\* The step of a scan to the next cell of its source: `i += 1` at lines 146
\* and 243, and the index of the iterator of line 101.
NextIndex_Mutant(index) == index
NextIndex(index) == index + 1

\* What an arithmetic overflow does depends on the build profile: it panics
\* with overflow checks enabled and wraps without them.
OverflowOutcomes == {"panic", "wrap"}

\* The length test of main(), line 264.
ArgsTooShort_Mutant(args) == Len(args) < LOCK_HASH_LEN
ArgsTooShort(args) == Len(args) < ARGS_LEN

\* main(), lines 259-267: load the script and check the length of its args.
Main ==
    /\ pc = "main"
    /\ IF SysErrorOf("load_script", 0, "") # "Ok"
       THEN Return(FromSysError(SysErrorOf("load_script", 0, "")))
       ELSE IF ArgsTooShort(script.args)
       THEN Return("ArgsLen")
       ELSE /\ pc' = "check_owner_mode"
            /\ UNCHANGED result
    /\ UNCHANGED <<tx, i, key, token_sale_lock_cells, token_cost, totals,
                   input_amounts, output_amounts>>

\* check_owner_mode(): one step of the search over the lock hashes of all
\* inputs; main() returns Ok(()) on a match.
\* The source whose lock hashes check_owner_mode() searches, line 101.
OwnerModeSource_Mutant == "GroupInput"
OwnerModeSource == "Input"

CheckOwnerMode ==
    /\ pc = "check_owner_mode"
    /\ IF SysErrorOf("load_cell_lock_hash", i, OwnerModeSource) = "IndexOutOfBound"
       THEN /\ pc' = "validate_token_sale_inputs"
            /\ i' = 0
            /\ UNCHANGED result
       ELSE IF SysErrorOf("load_cell_lock_hash", i, OwnerModeSource) # "Ok"
       THEN /\ Return("panic")      \* QueryIter panics on any other error
            /\ UNCHANGED i
       ELSE IF Len(script.args) < LOCK_HASH_LEN
       THEN /\ Return("panic")      \* args[0..LOCK_HASH_LEN] out of range
            /\ UNCHANGED i
       ELSE IF SubSeq(script.args, 1, LOCK_HASH_LEN) = LoadCellLockHash(i, OwnerModeSource)
       THEN /\ Return("Ok")
            /\ UNCHANGED i
       ELSE /\ i' = NextIndex(i)
            /\ UNCHANGED <<pc, result>>
    /\ UNCHANGED <<tx, key, token_sale_lock_cells, token_cost, totals,
                   input_amounts, output_amounts>>

\* type_().to_opt() is None, line 212.
TypeIsNone_Mutant(cell) == FALSE
TypeIsNone(cell) == cell.type = NoScript

\* validate_token_sale_inputs()
ValidateTokenSaleInputs ==
    /\ pc = "validate_token_sale_inputs"
    /\ IF LoadCellIsOk(1, "GroupInput")
       THEN /\ Return("InvalidStructure")
            /\ UNCHANGED key
       ELSE IF ~LoadCellIsOk(0, "GroupInput")
       THEN /\ Return(FromSysError(SysErrorOf("load_cell", 0, "GroupInput")))
            /\ UNCHANGED key
       ELSE IF TypeIsNone(LoadCell(0, "GroupInput"))
       THEN /\ Return("InvalidStructure")
            /\ UNCHANGED key
       ELSE /\ lock_script' = LoadCell(0, "GroupInput").lock
            /\ type_script' = LoadCell(0, "GroupInput").type
            /\ pc' = "validate_token_sale_outputs"
            /\ UNCHANGED result
    /\ UNCHANGED <<tx, i, token_sale_lock_cells, token_cost, totals,
                   input_amounts, output_amounts>>

\* The test of lines 130 and 238: the cell's lock and type bytes equal the key's.
CellMatches_Mutant(cell, lock, type) ==
    /\ cell.lock.code_hash = lock.code_hash
    /\ AsBytes(cell.type) = AsBytes(type)
CellMatches(cell, lock, type) ==
    /\ AsBytes(cell.lock) = AsBytes(lock)
    /\ AsBytes(cell.type) = AsBytes(type)

\* The test of line 249 on the number of matching outputs.
WrongOutputCount_Mutant(count) == count < 1
WrongOutputCount(count) == count # 1

\* validate_token_sale_outputs(): one iteration of the loop, or the check
\* after it.
ValidateTokenSaleOutputs ==
    /\ pc = "validate_token_sale_outputs"
    /\ IF LoadCellIsOk(i, "Output")
       THEN /\ token_sale_lock_cells' =
                  IF CellMatches(LoadCell(i, "Output"), lock_script, type_script)
                  THEN token_sale_lock_cells + 1
                  ELSE token_sale_lock_cells
            /\ i' = NextIndex(i)
            /\ UNCHANGED <<pc, result>>
       ELSE IF SysErrorOf("load_cell", i, "Output") # "IndexOutOfBound"
       THEN /\ Return(FromSysError(SysErrorOf("load_cell", i, "Output")))
            /\ UNCHANGED <<i, token_sale_lock_cells>>
       ELSE IF WrongOutputCount(token_sale_lock_cells)
       THEN /\ Return("InvalidStructure")
            /\ UNCHANGED <<i, token_sale_lock_cells>>
       ELSE /\ pc' = "determine_token_cost"
            /\ i' = 0
            /\ UNCHANGED <<result, token_sale_lock_cells>>
    /\ UNCHANGED <<tx, key, token_cost, totals, input_amounts, output_amounts>>

\* u64::from_le_bytes / u128::from_le_bytes: byte k has weight 256^(k-1).
FromLeBytes_Mutant(buf) == [k \in 1..Len(buf) |-> buf[Len(buf) + 1 - k]]
FromLeBytes(buf) == [k \in 1..Len(buf) |-> buf[k]]

\* The test of line 166 on the decoded cost.
CostIsInvalid_Mutant(cost) == FALSE
CostIsInvalid(cost) == Less(cost, U64(1))

\* determine_token_cost()
DetermineTokenCost ==
    /\ pc = "determine_token_cost"
    /\ LET slice_start == LOCK_HASH_LEN
           slice_end   == slice_start + COST_AMOUNT_LEN
           cost == FromLeBytes(SubSeq(script.args, slice_start + 1, slice_end))
       IN  IF Len(script.args) < slice_end
           THEN /\ Return("panic")      \* args[slice_start..slice_end] out of range
                /\ UNCHANGED token_cost
           ELSE IF CostIsInvalid(cost)
           THEN /\ Return("InvalidCost")
                /\ UNCHANGED token_cost
           ELSE /\ token_cost' = cost
                /\ pc' = "amounts_input"
                /\ UNCHANGED result
    /\ UNCHANGED <<tx, i, key, token_sale_lock_cells, totals,
                   input_amounts, output_amounts>>

\* The test of line 134 on the data of a matching cell.
AmountDataLenIsWrong_Mutant(data) == Len(data) < SUDT_AMOUNT_DATA_LEN
AmountDataLenIsWrong(data) == Len(data) # SUDT_AMOUNT_DATA_LEN

\* determine_token_sale_cell_amounts(): one iteration of the loop over
\* `source`, or the return of the totals when the source is exhausted.
DetermineTokenSaleCellAmounts(source) ==
    IF SysErrorOf("load_cell", i, source) \notin {"Ok", "IndexOutOfBound"}
    THEN /\ Return(FromSysError(SysErrorOf("load_cell", i, source)))
         /\ UNCHANGED <<i, totals, input_amounts, output_amounts>>
    ELSE IF ~LoadCellIsOk(i, source)
    THEN /\ IF source = "GroupInput"
            THEN /\ input_capacity_amount' = total_capacity
                 /\ input_token_amount' = total_tokens
                 /\ pc' = "amounts_output"
                 /\ UNCHANGED output_amounts
            ELSE /\ output_capacity_amount' = total_capacity
                 /\ output_token_amount' = total_tokens
                 /\ pc' = "validate_amounts"
                 /\ UNCHANGED input_amounts
         /\ i' = 0
         /\ total_capacity' = U64(0)
         /\ total_tokens' = U128(0)
         /\ UNCHANGED result
    ELSE LET cell == LoadCell(i, source)
             data == LoadCellData(i, source)
         IN  IF ~CellMatches(cell, lock_script, type_script)
             THEN /\ i' = NextIndex(i)
                  /\ UNCHANGED <<pc, result, totals, input_amounts, output_amounts>>
             ELSE IF SysErrorOf("load_cell_data", i, source) # "Ok"
             THEN /\ Return(FromSysError(SysErrorOf("load_cell_data", i, source)))
                  /\ UNCHANGED <<i, totals, input_amounts, output_amounts>>
             ELSE IF AmountDataLenIsWrong(data)
             THEN /\ Return("Encoding")
                  /\ UNCHANGED <<i, totals, input_amounts, output_amounts>>
             ELSE LET tokens   == AddCarry(total_tokens, FromLeBytes(data), 0)
                      capacity == AddCarry(total_capacity, FromLeBytes(cell.capacity), 0)
                  IN  \E outcome \in OverflowOutcomes :
                         IF /\ outcome = "panic"
                            /\ \/ ~Fits(tokens, SUDT_AMOUNT_DATA_LEN)
                               \/ ~Fits(capacity, U64_LEN)
                         THEN /\ Return("panic")
                              /\ UNCHANGED <<i, totals, input_amounts, output_amounts>>
                         ELSE /\ total_tokens' = Wrap(tokens, SUDT_AMOUNT_DATA_LEN)
                              /\ total_capacity' = Wrap(capacity, U64_LEN)
                              /\ i' = NextIndex(i)
                              /\ UNCHANGED <<pc, result, input_amounts, output_amounts>>

AmountsInput ==
    /\ pc = "amounts_input"
    /\ DetermineTokenSaleCellAmounts("GroupInput")
    /\ UNCHANGED <<tx, key, token_sale_lock_cells, token_cost>>

AmountsOutput ==
    /\ pc = "amounts_output"
    /\ DetermineTokenSaleCellAmounts("Output")
    /\ UNCHANGED <<tx, key, token_sale_lock_cells, token_cost>>

\* The tests of lines 178 and 184.
CapacityNotAdded_Mutant(in_capacity, out_capacity) == Less(out_capacity, in_capacity)
CapacityNotAdded(in_capacity, out_capacity) == LessEq(out_capacity, in_capacity)
TokensNotReleased_Mutant(in_tokens, out_tokens) == Less(in_tokens, out_tokens)
TokensNotReleased(in_tokens, out_tokens) == LessEq(in_tokens, out_tokens)

\* The comparison of line 190 and what follows it: the outcomes it can have,
\* "Ok" for Ok(()).
ExchangeRateOutcomes(cost, in_capacity, out_capacity, in_tokens, out_tokens) ==
    UNION {
        LET wrapped == IF paid # Wrap(product, SUDT_AMOUNT_DATA_LEN)
                       THEN "ExchangeRate" ELSE "Ok"
        IN  IF Fits(product, SUDT_AMOUNT_DATA_LEN)
            THEN {wrapped}
            ELSE {IF outcome = "panic" THEN "panic" ELSE wrapped :
                     outcome \in OverflowOutcomes} :
        paid    \in {Widen(Sub(out_capacity, in_capacity), SUDT_AMOUNT_DATA_LEN)},
        product \in {MulFull(released, wide_cost) :
                        released  \in {Sub(in_tokens, out_tokens)},
                        wide_cost \in {Widen(cost, SUDT_AMOUNT_DATA_LEN)}} }

validate_amounts_SudtFirst(cost, in_capacity, out_capacity, in_tokens, out_tokens) ==
    IF TokensNotReleased(in_tokens, out_tokens) THEN {"AmountSudt"}
    ELSE IF CapacityNotAdded(in_capacity, out_capacity) THEN {"AmountCkbytes"}
    ELSE ExchangeRateOutcomes(cost, in_capacity, out_capacity, in_tokens, out_tokens)

validate_amounts_CapacityOnly(cost, in_capacity, out_capacity, in_tokens, out_tokens) ==
    IF CapacityNotAdded(in_capacity, out_capacity) THEN {"AmountCkbytes"}
    ELSE {"Ok"}

\* validate_amounts(): the outcomes it can have.
validate_amounts(cost, in_capacity, out_capacity, in_tokens, out_tokens) ==
    IF CapacityNotAdded(in_capacity, out_capacity) THEN {"AmountCkbytes"}
    ELSE IF TokensNotReleased(in_tokens, out_tokens) THEN {"AmountSudt"}
    ELSE ExchangeRateOutcomes(cost, in_capacity, out_capacity, in_tokens, out_tokens)

\* main(), lines 291-294
ValidateAmounts ==
    /\ pc = "validate_amounts"
    /\ \E r \in validate_amounts(token_cost, input_capacity_amount,
                                 output_capacity_amount, input_token_amount,
                                 output_token_amount) : Return(r)
    /\ UNCHANGED <<tx, i, key, token_sale_lock_cells, token_cost, totals,
                   input_amounts, output_amounts>>

Next ==
    \/ Main
    \/ CheckOwnerMode
    \/ ValidateTokenSaleInputs
    \/ ValidateTokenSaleOutputs
    \/ DetermineTokenCost
    \/ AmountsInput
    \/ AmountsOutput
    \/ ValidateAmounts

Spec == Init /\ [][Next]_vars

\* The script on a host that may fail one call.
SpecFaults == InitFaults /\ [][Next]_vars

\* The script runs to completion without suspension: a step that can be taken
\* is taken.
FairSpec == Spec /\ WF_vars(Next)

(***************************************************************************)
(* Vocabulary of the claims, in terms of the transaction snapshot          *)
(***************************************************************************)
Done == pc = "done"

\* The args carry the owner lock hash and the unit cost.
ArgsDecoded == Len(script.args) >= LOCK_HASH_LEN + COST_AMOUNT_LEN
OwnerLockHash == SubSeq(script.args, 1, LOCK_HASH_LEN)
UnitCost == SubSeq(script.args, LOCK_HASH_LEN + 1, LOCK_HASH_LEN + COST_AMOUNT_LEN)

\* Some cell of the full input set has the owner's lock hash.
OwnerInput ==
    \E k \in 1..Len(inputs) : ScriptHash(inputs[k].lock) = OwnerLockHash

\* Owner and non-owner transactions: the args decode, and the owner's lock
\* hash is, or is not, among the inputs.
OwnerTx == ArgsDecoded /\ OwnerInput
NonOwnerTx == ArgsDecoded /\ ~OwnerInput

\* The sale cell: the cell of the script's input group, when there is one.
OneSaleInput == Len(GroupInput) = 1
SaleCell == GroupInput[1]

\* The outputs whose lock and type are the sale cell's.
MatchedOutputs ==
    {k \in 1..Len(outputs) :
        outputs[k].lock = SaleCell.lock /\ outputs[k].type = SaleCell.type}
SaleOutput == outputs[CHOOSE k \in MatchedOutputs : TRUE]

StructureOk ==
    /\ OneSaleInput
    /\ SaleCell.type # NoScript
    /\ Cardinality(MatchedOutputs) = 1

PayloadsOk ==
    /\ Len(SaleCell.data) = SUDT_AMOUNT_DATA_LEN
    /\ Len(SaleOutput.data) = SUDT_AMOUNT_DATA_LEN

\* The capacity paid equals the exact integer product of the tokens released
\* and the unit cost (compared on 24 digits, where no product wraps).
ExactRate ==
    Widen(Sub(SaleOutput.capacity, SaleCell.capacity),
          SUDT_AMOUNT_DATA_LEN + COST_AMOUNT_LEN)
      = MulFull(Sub(SaleCell.data, SaleOutput.data), UnitCost)

Balanced ==
    /\ Less(SaleCell.capacity, SaleOutput.capacity)
    /\ Less(SaleOutput.data, SaleCell.data)
    /\ ExactRate

(***************************************************************************)
(* Chains of transactions                                                  *)
(***************************************************************************)
\* Chains of transactions: after the script accepted a transaction, the
\* output it counted as the sale cell is consumed by a next transaction, on
\* which the script that guards this cell runs anew.
MaxChain == 2

ChainTokens == {U128(0), U128(1), U128(2)}

\* The outputs of a transaction of a chain: one cell with the sale script and
\* the token type, alone or beside another cell, or a cell of another sale.
ChainOutputs(s) ==
    UNION { {<<a>>, <<PlainCell, a>>,
             <<a, Cell(U64(1), OtherSale(s), SudtType, U128(0))>>,
             <<Cell(U64(1), s, SudtType2, U128(0)), a>>,
             <<a, Cell(U64(1), s, SudtType, U128(0))>>} :
            a \in {Cell(c, s, SudtType, d) : c \in CapVals, d \in ChainTokens} }
      \cup {<<PlainCell, Cell(U64(1), OtherSale(s), SudtType, U128(1))>>}

InitChain ==
    /\ \E cost \in {U64(1), U64(3)} : script = SaleScript(cost, 0, FULL_ARGS_LEN)
    /\ asType = FALSE
    /\ \E d \in {U128(0), U128(2), U128(3), BigTokens} :
          inputs \in {<<Cell(U64(0), script, SudtType, d)>>,
                      <<PlainCell, Cell(U64(0), script, SudtType, d)>>}
    /\ outputs \in ChainOutputs(script)
    /\ fault = NoFault
    /\ chain = ChainStart
    /\ Start

\* The next transaction of a chain consumes the output that the output scan
\* of the accepted transaction counted (lines 236-240).
Chain ==
    /\ pc = "done"
    /\ result = "Ok"
    /\ NonOwnerTx
    /\ chain.length < MaxChain
    /\ \E k \in 1..Len(outputs) :
          /\ CellMatches(outputs[k], lock_script, type_script)
          /\ script' = IF asType THEN outputs[k].type ELSE outputs[k].lock
          /\ inputs' \in {<<outputs[k]>>, <<PlainCell, outputs[k]>>}
    /\ outputs' \in ChainOutputs(script')
    /\ chain' = [chain EXCEPT !.length = @ + 1]
    /\ UNCHANGED <<asType, fault>>
    /\ pc' = "main"
    /\ i' = 0
    /\ lock_script' = NoScript
    /\ type_script' = NoScript
    /\ token_sale_lock_cells' = 0
    /\ token_cost' = U64(0)
    /\ total_capacity' = U64(0)
    /\ total_tokens' = U128(0)
    /\ input_capacity_amount' = U64(0)
    /\ input_token_amount' = U128(0)
    /\ output_capacity_amount' = U64(0)
    /\ output_token_amount' = U128(0)
    /\ result' = ""

NextChain ==
    \/ Next
    \/ Chain

SpecChain == InitChain /\ [][NextChain]_vars

(***************************************************************************)
(* Claims                                                                  *)
(***************************************************************************)
\* C1: when an input of the full input set has the owner's lock hash, the
\* script accepts as soon as the owner-mode search finds it, and no later
\* phase runs, whatever the structure, amounts, payloads and types are.
C1_OwnerModeAccepts ==
    OwnerTx =>
        /\ pc \in {"main", "check_owner_mode", "done"}
        /\ Done => result = "Ok"

\* Witness of C1: accepted in owner mode, the owner's cell outside the
\* script's group and no sale output at all.
C1_Witness ==
    /\ Done /\ OwnerTx /\ result = "Ok"
    /\ \E k \in 1..Len(inputs) :
          ScriptHash(inputs[k].lock) = OwnerLockHash /\ inputs[k].lock # script
    /\ Len(GroupInput) = 1
    /\ MatchedOutputs = {}

\* C2: a non-owner transaction is accepted if and only if it has exactly one
\* matched input and one matched output, capacity increased, tokens decreased
\* and the capacity difference is the token difference times the unit cost.
C2_AcceptIffBalanced ==
    (Done /\ NonOwnerTx) =>
        (result = "Ok" <=> (StructureOk /\ PayloadsOk /\ Balanced))

\* C3: a non-owner transaction is accepted only when the capacity difference
\* equals the true integer product, never because of a wrapped product.
C3_NoPrecisionLoss ==
    (Done /\ NonOwnerTx /\ result = "Ok") => ExactRate

C5_ArgsLen44 ==
    Len(script.args) < FULL_ARGS_LEN =>
        /\ pc \in {"main", "done"}
        /\ Done => result = "ArgsLen"

\* C5, amended: args shorter than 40 bytes fail with ArgsLen before any other
\* phase runs, owner-mode detection included; args of 40 bytes or more pass
\* the length check.
C5_ArgsLen40 ==
    /\ Len(script.args) < LOCK_HASH_LEN + COST_AMOUNT_LEN =>
          /\ pc \in {"main", "done"}
          /\ Done => result = "ArgsLen"
    /\ Len(script.args) >= LOCK_HASH_LEN + COST_AMOUNT_LEN =>
          result # "ArgsLen"

\* Witness of C5: ArgsLen for args of 39 bytes although an input has the
\* owner's lock hash.
C5_Witness ==
    /\ Done /\ result = "ArgsLen"
    /\ Len(script.args) = LOCK_HASH_LEN + COST_AMOUNT_LEN - 1
    /\ OwnerInput

\* C6: in a non-owner transaction whose input group does not hold exactly one
\* cell (two or more, or none at index 0), the result is InvalidStructure.
C6_OneGroupInput ==
    (Done /\ NonOwnerTx /\ Len(GroupInput) # 1) => result = "InvalidStructure"

\* C7: in a non-owner transaction with one sale input carrying a type script,
\* a number of matching outputs other than 1 yields InvalidStructure.
C7_OneMatchingOutput ==
    (Done /\ NonOwnerTx /\ OneSaleInput /\ SaleCell.type # NoScript
          /\ Cardinality(MatchedOutputs) # 1)
        => result = "InvalidStructure"

\* Witness of C7: InvalidStructure for a sale cell split into two outputs.
C7_Witness ==
    /\ Done /\ NonOwnerTx /\ OneSaleInput /\ SaleCell.type # NoScript
    /\ Cardinality(MatchedOutputs) = 2
    /\ result = "InvalidStructure"

\* C8: in a non-owner transaction whose single group input has no type
\* script, the result is InvalidStructure and no output is ever scanned.
C8_TypeRequired ==
    (NonOwnerTx /\ OneSaleInput /\ SaleCell.type = NoScript) =>
        /\ pc \in {"main", "check_owner_mode", "validate_token_sale_inputs", "done"}
        /\ Done => result = "InvalidStructure"

\* Witness of C8: InvalidStructure for a typeless sale input, with outputs
\* present.
C8_Witness ==
    /\ Done /\ NonOwnerTx /\ OneSaleInput /\ SaleCell.type = NoScript
    /\ Len(outputs) > 0
    /\ result = "InvalidStructure"

\* The structural, cost and payload checks pass.
ChecksPassed ==
    /\ StructureOk
    /\ ~IsZero(UnitCost)
    /\ PayloadsOk

\* C9: in a non-owner transaction that passes the structural, cost and
\* payload checks, an output capacity not above the input capacity yields
\* AmountCkbytes, whatever the token amounts are.
C9_AmountCkbytes ==
    (Done /\ NonOwnerTx /\ ChecksPassed
          /\ LessEq(SaleOutput.capacity, SaleCell.capacity))
        => result = "AmountCkbytes"

\* Witness of C9: AmountCkbytes when the capacity did not change while tokens
\* were released.
C9_Witness ==
    /\ Done /\ NonOwnerTx /\ ChecksPassed
    /\ SaleOutput.capacity = SaleCell.capacity
    /\ Less(SaleOutput.data, SaleCell.data)
    /\ result = "AmountCkbytes"

\* C10: in a non-owner transaction that passes the structural, cost and
\* payload checks and adds capacity, an output token amount not below the
\* input token amount yields AmountSudt.
C10_AmountSudt ==
    (Done /\ NonOwnerTx /\ ChecksPassed
          /\ Less(SaleCell.capacity, SaleOutput.capacity)
          /\ LessEq(SaleCell.data, SaleOutput.data))
        => result = "AmountSudt"

\* Witness of C10: AmountSudt when capacity was added and the token amount
\* did not change.
C10_Witness ==
    /\ Done /\ NonOwnerTx /\ ChecksPassed
    /\ Less(SaleCell.capacity, SaleOutput.capacity)
    /\ SaleCell.data = SaleOutput.data
    /\ result = "AmountSudt"

\* C11: in a non-owner transaction where capacity strictly increased and
\* tokens strictly decreased, a capacity difference other than the exact
\* product of the token difference and the unit cost yields ExchangeRate.
C11_ExchangeRate ==
    (Done /\ NonOwnerTx /\ ChecksPassed
          /\ Less(SaleCell.capacity, SaleOutput.capacity)
          /\ Less(SaleOutput.data, SaleCell.data)
          /\ ~ExactRate)
        => result = "ExchangeRate"

\* C16: the host's IndexOutOfBound is only the end-of-sequence signal of a
\* scan; no transaction makes the script return it.
C16_IndexOutOfBoundNeverReturned ==
    Done => result # "IndexOutOfBound"

\* The cells of `source` that carry the key (lock and type of the sale cell).
Matching(source) ==
    {k \in 1..Len(CellsOf(source)) : CellMatches(CellsOf(source)[k], SaleCell.lock, SaleCell.type)}

\* Token amount and capacity of the matching cells among the first n cells
\* of `source` (at most one cell matches once the structure is validated).
TokensOfFirst(source, n) ==
    IF \E k \in Matching(source) : k <= n
    THEN CellsOf(source)[CHOOSE k \in Matching(source) : k <= n].data
    ELSE U128(0)

CapacityOfFirst(source, n) ==
    IF \E k \in Matching(source) : k <= n
    THEN CellsOf(source)[CHOOSE k \in Matching(source) : k <= n].capacity
    ELSE U64(0)

Aggregating == pc \in {"amounts_input", "amounts_output"}

AggregatedSource == IF pc = "amounts_input" THEN "GroupInput" ELSE "Output"

\* C12: during aggregation every cell that matches the key must carry a
\* 16-byte payload, otherwise the result is Encoding; a cell that does not
\* match is never required to carry one and adds nothing to the totals.
C12_EncodingOnlyForMatching ==
    /\ (Done /\ NonOwnerTx /\ StructureOk /\ ~IsZero(UnitCost))
          => (result = "Encoding" <=> ~PayloadsOk)
    /\ (Done /\ result = "Encoding")
          => (NonOwnerTx /\ StructureOk /\ ~PayloadsOk)
    /\ Aggregating
          => /\ total_tokens = TokensOfFirst(AggregatedSource, i)
             /\ total_capacity = CapacityOfFirst(AggregatedSource, i)

\* The aggregation has passed a cell that does not match and carries no
\* 16-byte payload, and run to the end over payloads of 16 bytes.
C12_Witness ==
    /\ pc = "validate_amounts"
    /\ \E k \in 1..Len(outputs) :
          /\ k \notin Matching("Output")
          /\ Len(outputs[k].data) # SUDT_AMOUNT_DATA_LEN
    /\ \E k \in 1..Len(outputs) :
          /\ k \notin Matching("Output")
          /\ ~IsZero(outputs[k].capacity)
    /\ output_token_amount = SaleOutput.data
    /\ output_capacity_amount = SaleOutput.capacity

\* A matching cell with a payload of another length ends the run.
C12_WitnessEncoding ==
    /\ Done /\ result = "Encoding"
    /\ Len(SaleOutput.data) > SUDT_AMOUNT_DATA_LEN

\* The conditions of the checker's first two tests, on the sale cell and its
\* output.
CapacityViolated == LessEq(SaleOutput.capacity, SaleCell.capacity)
TokensViolated == LessEq(SaleCell.data, SaleOutput.data)

\* What the checker returns when neither of its first two tests fails.
RateCodes == {"ExchangeRate", "Ok", "panic"}

\* What the structural validator returns on a violation.
StructureCodes == {"InvalidStructure", "IndexOutOfBound"}

\* C13 as stated: the first violated condition in the order decoder (args
\* length, unit cost), owner mode, structure, aggregation, checker decides
\* the result; in the checker AmountCkbytes precedes AmountSudt, which
\* precedes ExchangeRate.
C13_PhaseOrderDecoderFirst ==
    Done =>
        IF ~ArgsDecoded THEN result = "ArgsLen"
        ELSE IF IsZero(UnitCost) THEN result = "InvalidCost"
        ELSE IF OwnerInput THEN result = "Ok"
        ELSE IF ~StructureOk THEN result \in StructureCodes
        ELSE IF ~PayloadsOk THEN result = "Encoding"
        ELSE IF CapacityViolated THEN result = "AmountCkbytes"
        ELSE IF TokensViolated THEN result = "AmountSudt"
        ELSE result \in RateCodes

\* C13, amended: the order is args length, owner mode, structure, unit cost,
\* aggregation, checker.
C13_PhaseOrder ==
    Done =>
        IF ~ArgsDecoded THEN result = "ArgsLen"
        ELSE IF OwnerInput THEN result = "Ok"
        ELSE IF ~StructureOk THEN result \in StructureCodes
        ELSE IF IsZero(UnitCost) THEN result = "InvalidCost"
        ELSE IF ~PayloadsOk THEN result = "Encoding"
        ELSE IF CapacityViolated THEN result = "AmountCkbytes"
        ELSE IF TokensViolated THEN result = "AmountSudt"
        ELSE result \in RateCodes

\* Runs with several violations at once: structure and amounts, payload and
\* amounts, capacity and tokens.
C13_Witness ==
    /\ Done /\ NonOwnerTx /\ StructureOk /\ ~IsZero(UnitCost) /\ PayloadsOk
    /\ CapacityViolated /\ TokensViolated
    /\ result = "AmountCkbytes"

C13_WitnessStructure ==
    /\ Done /\ NonOwnerTx /\ ~StructureOk /\ IsZero(UnitCost)
    /\ Len(GroupInput) = 1
    /\ Len(SaleCell.data) # SUDT_AMOUNT_DATA_LEN
    /\ result = "InvalidStructure"

C13_WitnessEncoding ==
    /\ Done /\ NonOwnerTx /\ StructureOk /\ ~PayloadsOk
    /\ Len(SaleCell.data) = SUDT_AMOUNT_DATA_LEN
    /\ LessEq(SaleOutput.capacity, SaleCell.capacity)
    /\ result = "Encoding"

\* The lock is the script of another sale: same code, same owner and cost,
\* another sale id.
IsOtherSale(lock) ==
    /\ lock # script
    /\ lock.code_hash = script.code_hash
    /\ Len(lock.args) = Len(script.args)
    /\ SubSeq(lock.args, 1, ARGS_LEN) = SubSeq(script.args, 1, ARGS_LEN)

OtherSaleInputs == {k \in 1..Len(inputs) : IsOtherSale(inputs[k].lock)}
OtherSaleOutputs == {k \in 1..Len(outputs) : IsOtherSale(outputs[k].lock)}

TwoSalesTx ==
    /\ NonOwnerTx
    /\ Len(script.args) = FULL_ARGS_LEN
    /\ OtherSaleInputs # {}
    /\ OtherSaleOutputs # {}

\* C14: two sale cells whose args differ only in the sale id have distinct
\* keys: the other sale's output is not counted by the output scan, its cells
\* are not summed by the aggregation, and a transaction in which the validated
\* sale is balanced is accepted, whichever of the two scripts runs.
C14_DistinctSaleIds ==
    TwoSalesTx =>
        /\ \A k \in OtherSaleInputs : \A g \in 1..Len(GroupInput) : GroupInput[g] # inputs[k]
        /\ pc = "determine_token_cost"
              => token_sale_lock_cells = Cardinality(MatchedOutputs)
        /\ pc = "validate_amounts"
              => /\ input_capacity_amount = SaleCell.capacity
                 /\ input_token_amount = SaleCell.data
                 /\ output_capacity_amount = SaleOutput.capacity
                 /\ output_token_amount = SaleOutput.data
        /\ (Done /\ ChecksPassed /\ Balanced) => result = "Ok"

\* Either script has accepted a transaction with both sales, each with a
\* token-carrying output of the other.
C14_Witness ==
    /\ TwoSalesTx /\ Done /\ result = "Ok"
    /\ script = OtherSale(SaleScript(U64(1), 0, FULL_ARGS_LEN))
    /\ \E k \in OtherSaleOutputs :
          /\ outputs[k].type = SaleCell.type
          /\ ~IsZero(outputs[k].capacity)
    /\ \E k \in OtherSaleInputs : ~IsZero(inputs[k].data)

C14_WitnessFirstSale ==
    /\ TwoSalesTx /\ Done /\ result = "Ok"
    /\ script = SaleScript(U64(1), 0, FULL_ARGS_LEN)

\* The exit codes of success and of the values of enum Error.
ClosedCodes == {0, 1, 2, 3, 4, 100, 101, 102, 103, 104, 105}

\* C15: every run ends with success (0) or one of the codes of Error
\* (1, 2, 3, 4, 100 .. 105), and with no other value.
C15_ClosedOutcomes ==
    Done => ExitCode(result) \in ClosedCodes

\* The cells the scan at `pc` goes through.
ScannedCells ==
    CASE pc = "check_owner_mode" -> inputs
      [] pc = "validate_token_sale_outputs" -> outputs
      [] pc = "amounts_input" -> GroupInput
      [] pc = "amounts_output" -> outputs
      [] OTHER -> << >>

Scanning ==
    pc \in {"check_owner_mode", "validate_token_sale_outputs",
            "amounts_input", "amounts_output"}

\* A step that stays in the same scan moves its index to the next cell.
ScanAdvances == (pc' = pc) => (i' = i + 1)

\* C18: the script terminates on every transaction: each scan (owner mode,
\* output count, the two aggregations) advances its index by one per
\* iteration and stops at the end of its source, so the run reaches its result
\* after a number of iterations bounded by the number of cells.
C18_Terminates ==
    /\ <>Done
    /\ [][ScanAdvances]_vars
    /\ [](Scanning => i <= Len(ScannedCells))

\* A run that went through all four scans over sources of the largest size.
C18_Witness ==
    /\ Done /\ result = "Ok" /\ NonOwnerTx
    /\ Len(inputs) = MaxInputs
    /\ Len(outputs) = MaxOutputs

\* The natural number of a little-endian digit sequence.
RECURSIVE LeValue(_)
LeValue(a) == IF Len(a) = 0 THEN 0 ELSE a[1] + 256 * LeValue(Tail(a))

\* The value of a number of at least four digits when it is below 2^31, and
\* -1 otherwise.
SmallValue(a) ==
    IF Fits(a, SALE_ID_LEN) /\ a[SALE_ID_LEN] < 128
    THEN LeValue(SubSeq(a, 1, SALE_ID_LEN)) ELSE -1

CostDecoded == pc \in {"amounts_input", "amounts_output", "validate_amounts"}
OwnerModeDecided == pc \notin {"main", "check_owner_mode"}

\* The script of the key that is the running script: the key's lock, or its
\* type when the script runs as a type script.
KeyScript == IF asType THEN type_script ELSE lock_script

\* Every triple of the round trip with the args it is encoded to.
EncodedTriples ==
    {[owner |-> owner, cost |-> cost, id |-> id,
      args |-> EncodeArgs(owner, U64(cost), id, FULL_ARGS_LEN)] :
        owner \in RoundTripOwners, cost \in RoundTripCosts, id \in RoundTripIds}

\* C19: args encoded from (owner lock hash, unit cost, sale id) as 32 bytes,
\* u64 little-endian, u32 little-endian decode to the same triple: the owner
\* hash the owner-mode scan compares with, the cost determine_token_cost
\* returns, and the id bytes of the script in the key.
C19_ArgsRoundTrip ==
    \A t \in EncodedTriples :
        script.args = t.args =>
            /\ CostDecoded => SmallValue(token_cost) = t.cost
            /\ OwnerModeDecided =>
                  ((Done /\ token_sale_lock_cells = 0 /\ lock_script = NoScript
                         /\ result = "Ok")
                     <=> \E k \in 1..Len(inputs) : ScriptHash(inputs[k].lock) = t.owner)
            /\ lock_script # NoScript =>
                  SmallValue(SubSeq(KeyScript.args, ARGS_LEN + 1, FULL_ARGS_LEN)) = t.id

\* A cost and an id of several bytes have been decoded.
C19_Witness ==
    /\ pc = "validate_amounts"
    /\ script.args = EncodeArgs(ScriptHash(Lock2), U64(65537), 258, FULL_ARGS_LEN)
    /\ SmallValue(token_cost) = 65537
    /\ lock_script = script

\* The call the script is about to make is the one the host fails.  The
\* probe of index 1 of the input group is made whenever the inputs are
\* validated, and index 0 is loaded when the probe found no cell; the data of
\* a cell is loaded when the cell matches the key.
FaultAtHand ==
    \/ pc = "main" /\ fault.call = "load_script"
    \/ /\ pc = "check_owner_mode"
       /\ SysErrorOf("load_cell_lock_hash", i, "Input") \in HostFaults
    \/ /\ pc = "validate_token_sale_inputs"
       /\ SysErrorOf("load_cell", 1, "GroupInput") \in HostFaults
    \/ /\ pc = "validate_token_sale_inputs"
       /\ ~LoadCellIsOk(1, "GroupInput")
       /\ SysErrorOf("load_cell", 0, "GroupInput") \in HostFaults
    \/ /\ pc = "validate_token_sale_outputs"
       /\ SysErrorOf("load_cell", i, "Output") \in HostFaults
    \/ /\ Aggregating
       /\ SysErrorOf("load_cell", i, AggregatedSource) \in HostFaults
    \/ /\ Aggregating
       /\ SysErrorOf("load_cell", i, AggregatedSource) = "Ok"
       /\ CellMatches(LoadCell(i, AggregatedSource), lock_script, type_script)
       /\ SysErrorOf("load_cell_data", i, AggregatedSource) \in HostFaults

\* C17: a host fault other than IndexOutOfBound is never coerced: the call
\* that fails ends the run, by an abort for an unrecognized error and with
\* the error's own code for ItemMissing, LengthNotEnough and Encoding.
FaultEndsRun ==
    FaultAtHand =>
        /\ pc' = "done"
        /\ result' = IF fault.err = "Unknown" THEN "panic" ELSE fault.err

C17_FaultsNeverCoerced == [][FaultEndsRun]_vars

\* The run is in check_owner_mode or determine_token_cost, or past them.
DecodingReached == pc \notin {"main", "done"}

\* C25: the length test of main makes decoding safe: whenever
\* check_owner_mode or determine_token_cost runs, the args hold at least 40
\* bytes, so args[0..32] and args[32..40] are in bounds, and no run aborts
\* before the cost is decoded.
C25_DecodingInBounds ==
    /\ DecodingReached => Len(script.args) >= LOCK_HASH_LEN + COST_AMOUNT_LEN
    /\ (Done /\ result = "panic") => ~IsZero(token_cost)

\* Both decoders have run on args of exactly 40 bytes.
C25_Witness ==
    /\ pc = "amounts_input"
    /\ Len(script.args) = LOCK_HASH_LEN + COST_AMOUNT_LEN
    /\ token_cost = UnitCost

\* The cell the aggregation pass is about to load, when there is one.
CellAtHand == CellsOf(AggregatedSource)[i + 1]

\* C24: whenever an aggregation pass runs, exactly one cell of the input group
\* and exactly one output match the key; so the sum formed for a matching
\* 16-byte cell fits u64 and u128 whatever the cells hold, and the totals
\* handed to validate_amounts are that single cell's capacity and token
\* amount.
C24_SingleMatchNoOverflow ==
    /\ Aggregating =>
          /\ Len(GroupInput) = 1
          /\ Cardinality(Matching("GroupInput")) = 1
          /\ Cardinality(Matching("Output")) = 1
          /\ (i + 1) \in Matching(AggregatedSource) /\ ~AmountDataLenIsWrong(CellAtHand.data)
                => /\ Fits(AddCarry(total_tokens, FromLeBytes(CellAtHand.data), 0),
                           SUDT_AMOUNT_DATA_LEN)
                   /\ Fits(AddCarry(total_capacity, FromLeBytes(CellAtHand.capacity), 0),
                           U64_LEN)
    /\ pc = "validate_amounts" =>
          /\ input_capacity_amount = SaleCell.capacity
          /\ input_token_amount = SaleCell.data
          /\ output_capacity_amount = SaleOutput.capacity
          /\ output_token_amount = SaleOutput.data

\* The output pass has summed a cell of u64::MAX capacity and u128::MAX
\* tokens, with a second output of the same size beside it.
C24_Witness ==
    /\ pc = "amounts_output"
    /\ Len(outputs) = 2
    /\ i = 2
    /\ total_capacity = MaxCapacity
    /\ total_tokens = MaxTokens

\* The sale cell the chain began with.
Origin == chain.origin[1]

\* The script accepted the transaction at hand.
Accepted == Done /\ result = "Ok"

\* The outputs that carry the lock and type script bytes of the chain's first
\* sale cell.
OriginOutputs ==
    {k \in 1..Len(outputs) :
        /\ AsBytes(outputs[k].lock) = AsBytes(Origin.lock)
        /\ AsBytes(outputs[k].type) = AsBytes(Origin.type)}

\* C21: along a chain of accepted non-owner transactions, each consuming the
\* sale cell the previous one produced, the lock script bytes and the type
\* script bytes of the sale cell never change: every consumed sale cell
\* carries those of the first one, and every accepted transaction produces
\* exactly one output that carries them.
C21_KeyNeverChanges ==
    /\ Len(GroupInput) = 1
    /\ AsBytes(SaleCell.lock) = AsBytes(Origin.lock)
    /\ AsBytes(SaleCell.type) = AsBytes(Origin.type)
    /\ Accepted => Cardinality(OriginOutputs) = 1

\* The third transaction of a chain is accepted.
C21_Witness ==
    /\ Accepted
    /\ chain.length = 2
    /\ Len(outputs) = 2

\* The sale cell an accepted transaction produced.
Produced == outputs[CHOOSE k \in OriginOutputs : TRUE]

\* A sale cell of the chain against its first sale cell: more capacity or the
\* same cell, no more tokens, and the capacity gained is the exact integer
\* product of the tokens released and the unit cost.
ConservedSince(origin, cell) ==
    /\ \/ Less(origin.capacity, cell.capacity)
       \/ cell.capacity = origin.capacity /\ cell.data = origin.data
    /\ LessEq(cell.data, origin.data)
    /\ Widen(Sub(cell.capacity, origin.capacity), SUDT_AMOUNT_DATA_LEN + COST_AMOUNT_LEN)
         = MulFull(Sub(origin.data, cell.data), UnitCost)

\* C22: along a chain of accepted non-owner transactions from a sale cell of
\* capacity C0 and T0 tokens, every sale cell (C, T) of the chain, consumed or
\* produced, has C > C0 or (C, T) = (C0, T0), has T <= T0, and has
\* C - C0 = (T0 - T) * unitCost.
C22_ChainConserved ==
    /\ ConservedSince(Origin, SaleCell)
    /\ Accepted => ConservedSince(Origin, Produced)

\* The transactions of the chain accepted so far, the one at hand included.
AcceptedCount == chain.length + (IF Accepted THEN 1 ELSE 0)

\* The tokens left in the chain's sale cell: those of the produced cell once
\* the transaction at hand is accepted.
TokensLeft == IF Accepted THEN Produced.data ELSE SaleCell.data

\* C23: a sale cell holding 0 tokens is never consumed by an accepted
\* non-owner transaction; every accepted non-owner transaction leaves strictly
\* fewer tokens in the sale cell than it found; so the transactions accepted
\* along a chain from a cell with T tokens number at most T, less the tokens
\* left.
C23_TokensRunOut ==
    /\ [](/\ IsZero(SaleCell.data) => ~Accepted
          /\ Accepted => Less(Produced.data, SaleCell.data)
          /\ LessEq(AddCarry(TokensLeft, U128(AcceptedCount), 0),
                    Widen(Origin.data, SUDT_AMOUNT_DATA_LEN + 1)))
    /\ [][chain' # chain => Less(SaleCell'.data, SaleCell.data)]_vars

\* A cell of 2 tokens was consumed twice, and the third transaction of the
\* chain, on the cell of 0 tokens, is rejected.
C23_Witness ==
    /\ Origin.data = U128(2)
    /\ chain.length = 2
    /\ IsZero(SaleCell.data)
    /\ Done
    /\ result = "AmountSudt"

\* What a non-owner outcome may depend on: the args, the cells of the
\* script's input group, and the outputs whose lock and type are those of the
\* group's first cell, in their order.
KeyOutputs ==
    IF Len(GroupInput) = 0 THEN << >>
    ELSE SelectSeq(outputs, LAMBDA c : c.lock = SaleCell.lock /\ c.type = SaleCell.type)

\* The outcomes of a non-owner run as a function of these three alone.
OutcomesOf(args, group, outs) ==
    IF Len(group) > 1 THEN {"InvalidStructure"}
    ELSE IF Len(group) = 0 THEN {"IndexOutOfBound"}
    ELSE IF group[1].type = NoScript THEN {"InvalidStructure"}
    ELSE IF Len(outs) # 1 THEN {"InvalidStructure"}
    ELSE IF IsZero(SubSeq(args, LOCK_HASH_LEN + 1, LOCK_HASH_LEN + COST_AMOUNT_LEN))
    THEN {"InvalidCost"}
    ELSE IF Len(group[1].data) # SUDT_AMOUNT_DATA_LEN THEN {"Encoding"}
    ELSE IF Len(outs[1].data) # SUDT_AMOUNT_DATA_LEN THEN {"Encoding"}
    ELSE validate_amounts(SubSeq(args, LOCK_HASH_LEN + 1, LOCK_HASH_LEN + COST_AMOUNT_LEN),
                          group[1].capacity, outs[1].capacity,
                          group[1].data, outs[1].data)

\* The cells the outcome may not depend on: the inputs outside the group and
\* the outputs that do not match the key.
OtherInputs == Len(inputs) - Len(GroupInput)
OtherOutputs == Len(outputs) - Len(KeyOutputs)

\* C26: the outcome of a non-owner transaction is determined by the args, the
\* cells of the script's input group and the outputs matching the key:
\* whatever other outputs and whatever inputs outside the group (none with
\* the owner's lock hash) the transaction has, and wherever they stand, the
\* result is the one these three give.
C26_OutcomeOfProjection ==
    (Done /\ NonOwnerTx) => result \in OutcomesOf(script.args, GroupInput, KeyOutputs)

\* An accepted purchase with an input outside the group before the sale cell
\* and an output of another sale before the sale's output.
C26_Witness ==
    /\ Accepted
    /\ NonOwnerTx
    /\ OtherInputs = 1
    /\ OtherOutputs = 1
    /\ inputs[1] # SaleCell
    /\ outputs[1] # KeyOutputs[1]

====
